---- MODULE Spec2Model ----
(***************************************************************************)
(* Model of the MicrobitBLE class of html-js/microbit-ble-lib.js: the      *)
(* connection manager, the service starter, the notification decoders and  *)
(* the outgoing writers, together with the part of the Web Bluetooth       *)
(* platform the class talks to.                                            *)
(*                                                                         *)
(* Scheduling.  JavaScript runs one task at a time and drains the          *)
(* microtask queue before the next task: the code between two awaits of a  *)
(* pending platform promise or timer runs without interruption.  One       *)
(* action of the model is one such run: a call made by the application, a  *)
(* platform promise settling, a timer firing, a platform event.            *)
(*                                                                         *)
(* Platform.  One device.  device.gatt is one object, so this.server is    *)
(* device.gatt and server.connected is the state of the link.  On link     *)
(* loss the platform, in one task, sets connected to false, forgets the    *)
(* GATT operations in progress (they reject), drops the attribute objects  *)
(* of the session and fires gattserverdisconnected on the device.          *)
(***************************************************************************)
EXTENDS Integers, Sequences, FiniteSets, TLC

\* ------------------------------------------------------------------ bounds

MaxConnects == 2   \* connect() calls in one behaviour
MaxFailures == 2   \* platform rejections that are not caused by link loss
MaxTextLen == 2    \* code points of a text given to a writer
MaxLiveFailures == 1 \* refusals of the device in a behaviour of SpecLive
MaxRegistered == 3 \* calls of on() in one behaviour

\* ------------------------------------------------------------------ UUIDs

UART_SERVICE == "6e400001-b5a3-f393-e0a9-e50e24dcca9e"
UART_TX == "6e400002-b5a3-f393-e0a9-e50e24dcca9e"
UART_RX == "6e400003-b5a3-f393-e0a9-e50e24dcca9e"
TEMPERATURE_SERVICE == "e95d6100-251d-470a-a062-fa1922dfa9a8"
TEMPERATURE_DATA == "e95d9250-251d-470a-a062-fa1922dfa9a8"
TEMPERATURE_PERIOD == "e95d1b25-251d-470a-a062-fa1922dfa9a8"
ACCELEROMETER_SERVICE == "e95d0753-251d-470a-a062-fa1922dfa9a8"
ACCELEROMETER_DATA == "e95dca4b-251d-470a-a062-fa1922dfa9a8"
ACCELEROMETER_PERIOD == "e95dfb24-251d-470a-a062-fa1922dfa9a8"
BUTTON_SERVICE == "e95d9882-251d-470a-a062-fa1922dfa9a8"
BUTTON_A == "e95dda90-251d-470a-a062-fa1922dfa9a8"
BUTTON_B == "e95dda91-251d-470a-a062-fa1922dfa9a8"
MAGNETOMETER_SERVICE == "e95df2d8-251d-470a-a062-fa1922dfa9a8"
MAGNETOMETER_DATA == "e95dfb11-251d-470a-a062-fa1922dfa9a8"
MAGNETOMETER_PERIOD == "e95d386c-251d-470a-a062-fa1922dfa9a8"
MAGNETOMETER_BEARING == "e95d9715-251d-470a-a062-fa1922dfa9a8"
LED_SERVICE == "e95dd91d-251d-470a-a062-fa1922dfa9a8"
LED_TEXT == "e95d93ee-251d-470a-a062-fa1922dfa9a8"

\* Object.values(MICROBIT_UUIDS)
MICROBIT_UUIDS ==
  {UART_SERVICE, UART_TX, UART_RX,
   TEMPERATURE_SERVICE, TEMPERATURE_DATA, TEMPERATURE_PERIOD,
   ACCELEROMETER_SERVICE, ACCELEROMETER_DATA, ACCELEROMETER_PERIOD,
   BUTTON_SERVICE, BUTTON_A, BUTTON_B,
   MAGNETOMETER_SERVICE, MAGNETOMETER_DATA, MAGNETOMETER_PERIOD, MAGNETOMETER_BEARING,
   LED_SERVICE, LED_TEXT}

\* The characteristics the class subscribes to or writes.
CharUuids ==
  {UART_TX, UART_RX, TEMPERATURE_DATA, ACCELEROMETER_DATA, BUTTON_A, BUTTON_B,
   MAGNETOMETER_DATA, MAGNETOMETER_BEARING, LED_TEXT}

\* Keys of this.characteristics.
CharKeys ==
  {"uart:rx", "uart:tx", "temperature:data", "accelerometer:data", "button:a",
   "button:b", "magnetometer:data", "magnetometer:bearing"}

NoHandle == "none"

\* ------------------------------------------------------------------ the service table

\* Variant of the services array with the magnetometer moved to the front.
ServicesMagnetometerFirst ==
  <<"magnetometer", "uart", "temperature", "accelerometer", "buttons">>

\* The services array of _startAllServices, in its order.
Services == <<"uart", "temperature", "accelerometer", "buttons", "magnetometer">>

\* The optional flag of the services array.
Optional(name) == name = "magnetometer"

\* One awaited platform call of a startX method.  store: the key under which the
\* handle is put in this.characteristics once the call has succeeded ("" for
\* none); a successful startNotifications is followed by addEventListener on the
\* same characteristic.  skipTo: where the method continues when the call
\* rejects inside an inner try block (0: the rejection reaches the method's own
\* catch).
Step(op, uuid, store, skipTo) ==
  [op |-> op, uuid |-> uuid, store |-> store, skipTo |-> skipTo]

\* Variant of startUART with the two characteristics exchanged.
startUARTExchanged ==
  << Step("getPrimaryService", UART_SERVICE, "", 0),
     Step("getCharacteristic", UART_TX, "uart:rx", 0),
     Step("getCharacteristic", UART_RX, "", 0),
     Step("startNotifications", UART_RX, "uart:tx", 0) >>

startUART ==
  << Step("getPrimaryService", UART_SERVICE, "", 0),
     Step("getCharacteristic", UART_RX, "uart:rx", 0),
     Step("getCharacteristic", UART_TX, "", 0),
     Step("startNotifications", UART_TX, "uart:tx", 0) >>

startTemperature ==
  << Step("getPrimaryService", TEMPERATURE_SERVICE, "", 0),
     Step("getCharacteristic", TEMPERATURE_DATA, "", 0),
     Step("startNotifications", TEMPERATURE_DATA, "temperature:data", 0) >>

startAccelerometer ==
  << Step("getPrimaryService", ACCELEROMETER_SERVICE, "", 0),
     Step("getCharacteristic", ACCELEROMETER_DATA, "", 0),
     Step("startNotifications", ACCELEROMETER_DATA, "accelerometer:data", 0) >>

startButtons ==
  << Step("getPrimaryService", BUTTON_SERVICE, "", 0),
     Step("getCharacteristic", BUTTON_A, "", 0),
     Step("startNotifications", BUTTON_A, "button:a", 0),
     Step("getCharacteristic", BUTTON_B, "", 0),
     Step("startNotifications", BUTTON_B, "button:b", 0) >>

startMagnetometer ==
  << Step("getPrimaryService", MAGNETOMETER_SERVICE, "", 0),
     Step("getCharacteristic", MAGNETOMETER_DATA, "", 4),
     Step("startNotifications", MAGNETOMETER_DATA, "magnetometer:data", 4),
     Step("getCharacteristic", MAGNETOMETER_BEARING, "", 6),
     Step("startNotifications", MAGNETOMETER_BEARING, "magnetometer:bearing", 6) >>

\* The method of entry i of the services array.
Method(i) ==
  CASE i = 1 -> startUART
    [] i = 2 -> startTemperature
    [] i = 3 -> startAccelerometer
    [] i = 4 -> startButtons
    [] OTHER -> startMagnetometer

TypedEvents ==
  {"uart:received", "temperature:changed", "accelerometer:changed", "button:a:changed",
   "button:b:changed", "magnetometer:changed", "magnetometer:bearing:changed"}

\* ------------------------------------------------------------------ decoders

\* DataView.getUint8(0)
getUint8(bytes) == bytes[1]

\* Variant of getInt8 that reads the byte unsigned.
getInt8Unsigned(bytes) == bytes[1]

\* DataView.getInt8(0)
getInt8(bytes) == IF bytes[1] >= 128 THEN bytes[1] - 256 ELSE bytes[1]

\* Variant of getUint16 that reads the two bytes as a signed value.
getUint16Signed(bytes, offset) ==
  IF bytes[offset + 2] >= 128
  THEN bytes[offset + 1] + 256 * bytes[offset + 2] - 65536
  ELSE bytes[offset + 1] + 256 * bytes[offset + 2]

\* DataView.getUint16(offset, true), offset counted from 0
getUint16(bytes, offset) == bytes[offset + 1] + 256 * bytes[offset + 2]

\* Variant of getInt16 that reads the high byte first.
getInt16BigEndian(bytes, offset) ==
  IF 256 * bytes[offset + 1] + bytes[offset + 2] >= 32768
  THEN 256 * bytes[offset + 1] + bytes[offset + 2] - 65536
  ELSE 256 * bytes[offset + 1] + bytes[offset + 2]

\* DataView.getInt16(offset, true)
getInt16(bytes, offset) ==
  IF getUint16(bytes, offset) >= 32768
  THEN getUint16(bytes, offset) - 65536
  ELSE getUint16(bytes, offset)

\* The comparison of the button listeners: getUint8(0) === 1.
ButtonPressed(bytes) == getUint8(bytes) = 1

\* new TextDecoder().decode(value) for bytes below 0xE0: one byte below 0x80 is
\* its code point, a lead byte 0xC2..0xDF with a continuation byte is a two-byte
\* code point, any other byte decodes to U+FFFD.
RECURSIVE TextDecode(_)
TextDecode(bytes) ==
  IF bytes = <<>> THEN <<>>
  ELSE IF bytes[1] < 128 THEN <<bytes[1]>> \o TextDecode(Tail(bytes))
  ELSE IF /\ bytes[1] >= 194 /\ bytes[1] <= 223 /\ Len(bytes) >= 2
          /\ bytes[2] >= 128 /\ bytes[2] <= 191
       THEN <<(bytes[1] - 192) * 64 + (bytes[2] - 128)>> \o TextDecode(Tail(Tail(bytes)))
  ELSE <<65533>> \o TextDecode(Tail(bytes))

\* new TextEncoder().encode(text) for code points of the basic plane that are
\* no surrogates: one, two or three bytes.
RECURSIVE TextEncode(_)
TextEncode(text) ==
  IF text = <<>> THEN <<>>
  ELSE IF text[1] < 128 THEN <<text[1]>> \o TextEncode(Tail(text))
  ELSE IF text[1] < 2048
       THEN <<192 + (text[1] \div 64), 128 + (text[1] % 64)>> \o TextEncode(Tail(text))
  ELSE <<224 + (text[1] \div 4096), 128 + ((text[1] \div 64) % 64), 128 + (text[1] % 64)>>
         \o TextEncode(Tail(text))

\* An emitted event: its name, the string of its payload (service, status, type,
\* pressed) and the numbers of its payload (temperature, x y z, bearing, text).
Ev(name, arg, val) == [name |-> name, arg |-> arg, val |-> val]

\* The event a characteristicvaluechanged listener emits for a value.
Decoded(uuid, bytes) ==
  CASE uuid = UART_TX -> Ev("uart:received", "", TextDecode(bytes))
    [] uuid = TEMPERATURE_DATA -> Ev("temperature:changed", "", <<getInt8(bytes)>>)
    [] uuid = ACCELEROMETER_DATA ->
         Ev("accelerometer:changed", "", <<getInt16(bytes, 0), getInt16(bytes, 2), getInt16(bytes, 4)>>)
    [] uuid = BUTTON_A ->
         Ev("button:a:changed", IF ButtonPressed(bytes) THEN "pressed" ELSE "released", <<>>)
    [] uuid = BUTTON_B ->
         Ev("button:b:changed", IF ButtonPressed(bytes) THEN "pressed" ELSE "released", <<>>)
    [] uuid = MAGNETOMETER_DATA ->
         Ev("magnetometer:changed", "", <<getInt16(bytes, 0), getInt16(bytes, 2), getInt16(bytes, 4)>>)
    [] OTHER -> Ev("magnetometer:bearing:changed", "", <<getUint16(bytes, 0)>>)

\* ------------------------------------------------------------------ state

VARIABLES
  config,            \* this.config: [deviceNamePrefix, autoStartServices, serviceDelay]
  eventHandlers,     \* this.eventHandlers: event name -> callbacks, in order
  device,            \* this.device: "null" or "dev"
  server,            \* this.server: "null" or "gatt"
  services,          \* keys of this.services
  characteristics,   \* this.characteristics: key -> UUID of the handle, or NoHandle
  connected,         \* platform: device.gatt.connected
  gattListeners,     \* platform: gattserverdisconnected listeners on the device
  activeAlgorithms,  \* platform: connect() calls with a GATT operation in progress
  subscribed,        \* platform: characteristics whose startNotifications succeeded
  rxOpened,          \* history: getCharacteristic(UART_RX) has resolved on this link
  charListeners,     \* platform: characteristicvaluechanged listeners per characteristic
  task,              \* the connect() calls: where each one is
  calls,             \* number of connect() calls made
  led,               \* the sendTextToLED call in progress or settled by the last step
  uart,              \* the sendUART call in progress or settled by the last step
  trace,             \* history, per connect(): events emitted, services attempted, pauses
  res,               \* history, per connect(): outcome of each startX
  links,             \* history: the 'connected' and 'disconnection' events, in order
  sinceDisc,         \* history: _handleDisconnection has run and no connect() began since
  sample,            \* history: the notification delivered by the last step, if any
  typed,             \* history: the events the listeners emitted for it
  registered,        \* history: the calls of on(), in order
  emission,          \* history: the emission made by the last step, if any
  failures,          \* number of platform rejections not caused by link loss
  ui                 \* the page: whether a MicrobitUIAdapter listens to the instance,
                     \* and the disabled attribute of connectBtn, disconnectBtn, sendBtn

vars ==
  <<config, device, server, services, characteristics, connected, gattListeners,
    activeAlgorithms, subscribed, rxOpened, charListeners, task, calls, led, uart,
    trace, res, links, sinceDisc, sample, typed, failures, eventHandlers, registered,
    emission, ui>>

Tasks == 1..MaxConnects

\* The argument of navigator.bluetooth.requestDevice.
NoRequest == [filters |-> <<>>, optionalServices |-> {}]

\* A call of connect().  request: the options it passed to requestDevice.
NoTask == [pc |-> "idle", svc |-> 0, step |-> 0, hasData |-> FALSE, request |-> NoRequest]
\* A call of sendUART or sendTextToLED.  linkUp, rxOpen: whether the link was up
\* and getCharacteristic(UART_RX) had resolved on it when the call was made; at: the platform
\* call that rejected.
NoSend == [pc |-> "idle", valid |-> FALSE, text |-> <<>>, result |-> "",
           written |-> <<>>, events |-> <<>>, linkUp |-> FALSE, rxOpen |-> FALSE,
           at |-> ""]
NoSample == [uuid |-> "", bytes |-> <<>>]
NoRes == [i \in 1..Len(Services) |-> "none"]

\* An emission: the event, the callbacks that were registered for it when it
\* began, the handler table it began with, the callbacks it invoked, the
\* exceptions it caught, and whether one reached the caller of _emit.
NoEmission == [event |-> "", expected |-> <<>>, before |-> <<>>, invoked |-> <<>>,
               caught |-> 0, thrown |-> FALSE]

\* The event names of _initializeEventHandlers.
DefaultEvents ==
  TypedEvents \cup {"connection", "disconnection", "service:started", "service:failed", "error"}

\* The state but for config, as one record: the operators below map records to
\* records, and an action commits the record its handler computes.  The record
\* of a notification, and of a send that has settled, lasts one step.
Cur ==
  [device |-> device, server |-> server, services |-> services,
   characteristics |-> characteristics, connected |-> connected,
   gattListeners |-> gattListeners, activeAlgorithms |-> activeAlgorithms,
   subscribed |-> subscribed, rxOpened |-> rxOpened,
   charListeners |-> charListeners, task |-> task,
   calls |-> calls, led |-> IF led.pc = "idle" THEN NoSend ELSE led,
   uart |-> IF uart.pc = "idle" THEN NoSend ELSE uart, trace |-> trace, res |-> res,
   links |-> links, sinceDisc |-> sinceDisc, sample |-> NoSample, typed |-> <<>>,
   failures |-> failures, eventHandlers |-> eventHandlers, registered |-> registered,
   emission |-> NoEmission]

\* The page without the adapter, its buttons as a disconnection leaves them.
NoPage == [adapter |-> FALSE, connectBtn |-> FALSE, disconnectBtn |-> TRUE, sendBtn |-> TRUE]

\* MicrobitUIAdapter.updateButtonStates(connected)
updateButtonStates(u, isConnected) ==
  [u EXCEPT !.connectBtn = isConnected, !.disconnectBtn = ~isConnected]

\* The handlers MicrobitUIAdapter registers, as far as they set a button: of
\* 'connection' with status 'connected', of 'disconnection', and of
\* 'service:started' for the uart service.
adapterHandler(u, e) ==
  CASE e.name = "connection" /\ e.arg = "connected" -> updateButtonStates(u, TRUE)
    [] e.name = "disconnection" -> updateButtonStates(u, FALSE)
    [] e.name = "service:started" /\ e.arg = "uart" -> [u EXCEPT !.sendBtn = FALSE]
    [] OTHER -> u

RECURSIVE adapterHandlers(_, _)
adapterHandlers(u, events) ==
  IF events = <<>> THEN u
  ELSE adapterHandlers(adapterHandler(u, Head(events)), Tail(events))

\* The events a step emits on the way from the current state to m: those added
\* to the history of a connect() call, or the 'disconnection' events.
RECURSIVE Added(_, _)
Added(m, t) ==
  IF t = 0 THEN <<>>
  ELSE Added(m, t - 1) \o SubSeq(m.trace[t], Len(trace[t]) + 1, Len(m.trace[t]))

Emitted(m) ==
  Added(m, MaxConnects)
    \o SelectSeq(SubSeq(m.links, Len(links) + 1, Len(m.links)),
                 LAMBDA e : e.name = "disconnection")

\* connectToMicrobit of the page around connect(): connectBtn is disabled before
\* the call, and the catch block, after a call has rejected, enables it and
\* disables disconnectBtn.
connectToMicrobit(u, m) ==
  LET begun == m.calls > calls
      failed == \E t \in Tasks : m.task[t].pc = "rejected" /\ task[t].pc # "rejected"
      u1 == IF begun THEN [u EXCEPT !.connectBtn = TRUE] ELSE u
      u2 == adapterHandlers(u1, Emitted(m))
  IN IF failed THEN [updateButtonStates(u2, FALSE) EXCEPT !.connectBtn = FALSE] ELSE u2

Commit(m) ==
  /\ device' = m.device
  /\ server' = m.server
  /\ services' = m.services
  /\ characteristics' = m.characteristics
  /\ connected' = m.connected
  /\ gattListeners' = m.gattListeners
  /\ activeAlgorithms' = m.activeAlgorithms
  /\ subscribed' = m.subscribed
  /\ rxOpened' = m.rxOpened
  /\ charListeners' = m.charListeners
  /\ task' = m.task
  /\ calls' = m.calls
  /\ led' = m.led
  /\ uart' = m.uart
  /\ trace' = m.trace
  /\ res' = m.res
  /\ links' = m.links
  /\ sinceDisc' = m.sinceDisc
  /\ sample' = m.sample
  /\ typed' = m.typed
  /\ failures' = m.failures
  /\ eventHandlers' = m.eventHandlers
  /\ registered' = m.registered
  /\ emission' = m.emission
  /\ ui' = IF ui.adapter THEN connectToMicrobit(ui, m) ELSE ui
  /\ UNCHANGED config

\* The keys of the constructor's argument.
ConfigKeys == {"deviceNamePrefix", "autoStartServices", "serviceDelay"}

\* The constructor's arguments in the model: each key absent or given; the prefix
\* "" or "micro", autoStartServices true or false, serviceDelay 0.
ConfigArgs ==
  {[k \in K |-> f[k]] :
     f \in [deviceNamePrefix : {"", "micro"}, autoStartServices : BOOLEAN, serviceDelay : {0}],
     K \in SUBSET ConfigKeys}

\* this.config of new MicrobitBLE(arg): the three defaulted entries, then the
\* entries of arg spread over them.
MicrobitBLE(arg) ==
  LET given(k) == k \in DOMAIN arg
      defaulted ==
        [deviceNamePrefix |->
           IF given("deviceNamePrefix") /\ arg["deviceNamePrefix"] # ""
           THEN arg["deviceNamePrefix"] ELSE "BBC micro:bit",
         autoStartServices |->
           IF given("autoStartServices") THEN arg["autoStartServices"] ELSE TRUE,
         serviceDelay |->
           IF given("serviceDelay") THEN arg["serviceDelay"] ELSE 300]
  IN [k \in ConfigKeys |-> IF given(k) THEN arg[k] ELSE defaulted[k]]

\* The state after new MicrobitBLE(config).
Constructed ==
  /\ device = "null"
  /\ server = "null"
  /\ services = {}
  /\ characteristics = [k \in CharKeys |-> NoHandle]
  /\ connected = FALSE
  /\ gattListeners = 0
  /\ activeAlgorithms = {}
  /\ subscribed = {}
  /\ rxOpened = FALSE
  /\ charListeners = [u \in CharUuids |-> 0]
  /\ task = [t \in Tasks |-> NoTask]
  /\ calls = 0
  /\ led = NoSend
  /\ uart = NoSend
  /\ trace = [t \in Tasks |-> <<>>]
  /\ res = [t \in Tasks |-> NoRes]
  /\ links = <<>>
  /\ sinceDisc = FALSE
  /\ typed = <<>>
  /\ failures = 0
  /\ eventHandlers = [e \in DefaultEvents |-> <<>>]
  /\ registered = <<>>
  /\ emission = NoEmission

Init ==
  /\ config \in {MicrobitBLE(arg) : arg \in [{"autoStartServices"} -> BOOLEAN]}
  /\ sample = NoSample
  /\ Constructed
  /\ ui = NoPage

\* ------------------------------------------------------------------ the emitter

\* _emit(event, data), on the history the event is recorded in.
_emit(log, event, data) == Append(log, Ev(event, data, <<>>))

\* Entries of a connect() history that are no events: a startX method is
\* called, a sleep is over.
Attempt(name) == Ev("attempt", name, <<>>)
Pause(which) == Ev("pause", which, <<>>)

\* ------------------------------------------------------------------ the service starter

RECURSIVE startService(_, _, _)
RECURSIVE await(_, _, _, _)

\* Variant of the catch block of _startAllServices that leaves the loop.
startAllCatchBreak(m, t, i) ==
  [m EXCEPT !.task[t].pc = "resolved",
            !.trace[t] = IF Optional(Services[i]) THEN @
                         ELSE _emit(@, "service:failed", Services[i])]

\* Variant of the catch block of _startAllServices that throws the error of a
\* required service again, to the catch block of connect().
startAllCatchRethrow(m, t, i) ==
  IF Optional(Services[i]) THEN startService(m, t, i + 1)
  ELSE [m EXCEPT !.task[t].pc = "rejected",
                 !.trace[t] = _emit(_emit(@, "service:failed", Services[i]),
                                    "error", "connection")]

\* The catch block of _startAllServices, then the next iteration of its loop:
\* the sleep of the try block is skipped.
startAllCatch(m, t, i) ==
  startService(
    IF Optional(Services[i]) THEN m
    ELSE [m EXCEPT !.trace[t] = _emit(@, "service:failed", Services[i])],
    t, i + 1)

\* The catch block of a startX method: the event, then the error is thrown again
\* to _startAllServices.
startCatch(m, t, i) ==
  startAllCatch([m EXCEPT !.res[t][i] = "failed",
                          !.trace[t] = _emit(@, "service:failed", Services[i])],
                t, i)

\* Variant of startDone without the hasData test of startMagnetometer.
startDoneWithoutData(m, t, i) ==
  [m EXCEPT !.res[t][i] = "ok",
            !.task[t].pc = "sleep",
            !.trace[t] = _emit(@, "service:started", Services[i])]

\* A startX method reached its last statement: service:started, or, in
\* startMagnetometer without any data, the throw.  After the method,
\* _startAllServices awaits sleep(serviceDelay).
startDone(m, t, i) ==
  IF Services[i] = "magnetometer" /\ ~m.task[t].hasData
  THEN startCatch(m, t, i)
  ELSE [m EXCEPT !.res[t][i] = "ok",
                 !.task[t].pc = "sleep",
                 !.trace[t] = _emit(@, "service:started", Services[i])]

\* An awaited platform call rejected.
rejected(m, t, i, k) ==
  IF Method(i)[k].skipTo = 0
  THEN startCatch(m, t, i)
  ELSE await(m, t, i, Method(i)[k].skipTo)

\* Statement k of method i: the platform call is made and awaited.  On a link
\* that is down the platform returns a rejected promise.
await(m, t, i, k) ==
  IF k > Len(Method(i)) THEN startDone(m, t, i)
  ELSE IF ~m.connected THEN rejected(m, t, i, k)
  ELSE [m EXCEPT !.task[t].pc = "op", !.task[t].step = k,
                 !.activeAlgorithms = @ \cup {t}]

\* Iteration i of the loop of _startAllServices: method() is called; each startX
\* first tests this.server?.connected.  Past the last entry _startAllServices
\* returns and connect() resolves.
startService(m, t, i) ==
  IF i > Len(Services) THEN [m EXCEPT !.task[t].pc = "resolved"]
  ELSE LET m1 == [m EXCEPT !.trace[t] = Append(@, Attempt(Services[i])),
                           !.task[t] = [@ EXCEPT !.pc = "op", !.svc = i, !.step = 1, !.hasData = FALSE]]
       IN IF ~(m.server = "gatt" /\ m.connected)
          THEN startCatch(m1, t, i)
          ELSE await(m1, t, i, 1)

\* Variant of the statements after a platform call in which the listener is
\* attached as soon as the characteristic is known, before startNotifications.
resolvedListeningEarly(m, t) ==
  LET i == m.task[t].svc
      k == m.task[t].step
      st == Method(i)[k]
      m1 == [m EXCEPT !.activeAlgorithms = @ \ {t},
                      !.rxOpened = @ \/ (st.op = "getCharacteristic" /\ st.uuid = UART_RX)]
      m2 == CASE st.op = "getPrimaryService" ->
                   [m1 EXCEPT !.services = @ \cup {Services[i]}]
               [] st.op = "getCharacteristic" ->
                   IF st.store # "" THEN [m1 EXCEPT !.characteristics[st.store] = st.uuid]
                   ELSE [m1 EXCEPT !.charListeners[st.uuid] = @ + 1]
               [] OTHER ->
                   [m1 EXCEPT !.subscribed = @ \cup {st.uuid},
                              !.characteristics[st.store] = st.uuid,
                              !.task[t].hasData = TRUE]
  IN await(m2, t, i, k + 1)

\* The statements after an awaited platform call of a startX method resolved.
resolved(m, t) ==
  LET i == m.task[t].svc
      k == m.task[t].step
      st == Method(i)[k]
      m1 == [m EXCEPT !.activeAlgorithms = @ \ {t},
                      !.rxOpened = @ \/ (st.op = "getCharacteristic" /\ st.uuid = UART_RX)]
      m2 == CASE st.op = "getPrimaryService" ->
                   [m1 EXCEPT !.services = @ \cup {Services[i]}]
               [] st.op = "getCharacteristic" ->
                   IF st.store = "" THEN m1
                   ELSE [m1 EXCEPT !.characteristics[st.store] = st.uuid]
               [] OTHER ->
                   [m1 EXCEPT !.subscribed = @ \cup {st.uuid},
                              !.charListeners[st.uuid] = @ + 1,
                              !.characteristics[st.store] = st.uuid,
                              !.task[t].hasData = TRUE]
  IN await(m2, t, i, k + 1)

\* ------------------------------------------------------------------ disconnection

\* Variant of _handleDisconnection that leaves the characteristic map alone.
handleDisconnectionKeepingCharacteristics(m) ==
  [m EXCEPT !.services = {},
            !.links = _emit(@, "disconnection", "dev"),
            !.sinceDisc = TRUE]

\* Variant of _handleDisconnection that leaves the service registry alone.
handleDisconnectionKeepingServices(m) ==
  [m EXCEPT !.characteristics = [k \in CharKeys |-> NoHandle],
            !.links = _emit(@, "disconnection", "dev"),
            !.sinceDisc = TRUE]

\* _handleDisconnection()
_handleDisconnection(m) ==
  [m EXCEPT !.services = {},
            !.characteristics = [k \in CharKeys |-> NoHandle],
            !.links = _emit(@, "disconnection", "dev"),
            !.sinceDisc = TRUE]

\* The gattserverdisconnected event: every listener connect() has added runs.
RECURSIVE dispatchDisconnected(_, _)
dispatchDisconnected(m, n) ==
  IF n = 0 THEN m ELSE dispatchDisconnected(_handleDisconnection(m), n - 1)

\* The platform's handling of a lost link.
linkLost(m) ==
  dispatchDisconnected(
    [m EXCEPT !.connected = FALSE,
              !.activeAlgorithms = {},
              !.subscribed = {},
              !.rxOpened = FALSE,
              !.charListeners = [u \in CharUuids |-> 0],
              !.led.valid = FALSE,
              !.uart.valid = FALSE],
    m.gattListeners)

\* isServiceStarted(serviceName)
isServiceStarted(m, serviceName) == serviceName \in m.services

\* ------------------------------------------------------------------ connect

\* Call t of connect() has settled.
Settled(m, t) == m.task[t].pc \in {"resolved", "rejected"}

\* Variant of connect that filters on the built-in prefix whatever the
\* configuration, and declares the UART service alone.
connectBuiltInPrefix(m, deviceNamePrefix) ==
  LET t == m.calls + 1
      options == [filters |-> <<[namePrefix |-> "BBC micro:bit"]>>,
                  optionalServices |-> {UART_SERVICE}]
  IN [m EXCEPT !.calls = t,
               !.task = [u \in Tasks |->
                           IF u = t
                           THEN [NoTask EXCEPT !.pc = "requestDevice", !.request = options]
                           ELSE IF Settled(m, u) THEN NoTask ELSE @[u]],
               !.trace = [u \in Tasks |->
                            IF u = t THEN Append(<<>>, Ev("connection", "requesting", <<>>))
                            ELSE IF Settled(m, u) THEN <<>> ELSE @[u]],
               !.res = [u \in Tasks |-> IF u = t \/ Settled(m, u) THEN NoRes ELSE @[u]],
               !.sinceDisc = FALSE]

\* connect() is called: the 'requesting' event, then requestDevice is awaited.
\* The history drops the calls that had settled before.
connect(m, deviceNamePrefix) ==
  LET t == m.calls + 1
      options == [filters |-> <<[namePrefix |-> deviceNamePrefix]>>,
                  optionalServices |-> MICROBIT_UUIDS]
  IN [m EXCEPT !.calls = t,
               !.task = [u \in Tasks |->
                           IF u = t
                           THEN [NoTask EXCEPT !.pc = "requestDevice", !.request = options]
                           ELSE IF Settled(m, u) THEN NoTask ELSE @[u]],
               !.trace = [u \in Tasks |->
                            IF u = t THEN _emit(<<>>, "connection", "requesting")
                            ELSE IF Settled(m, u) THEN <<>> ELSE @[u]],
               !.res = [u \in Tasks |-> IF u = t \/ Settled(m, u) THEN NoRes ELSE @[u]],
               !.sinceDisc = FALSE]

\* The catch block of connect().
connectCatch(m, t) ==
  [m EXCEPT !.task[t].pc = "rejected", !.trace[t] = _emit(@, "error", "connection")]

\* requestDevice resolved: the device is kept, the disconnect listener is added
\* to it and gatt.connect() is awaited.
deviceChosen(m, t) ==
  [m EXCEPT !.device = "dev", !.gattListeners = @ + 1, !.task[t].pc = "gattConnect"]

\* Variant of the statements after gatt.connect() that emits 'connected' before
\* the test of server.connected.
gattConnectedEmittingFirst(m, t, up, autoStartServices) ==
  LET m1 == [m EXCEPT !.server = "gatt", !.connected = up]
      m2 == [m1 EXCEPT !.trace[t] = Append(@, Ev("connection", "connected", <<m.device>>)),
                       !.links = Append(@, Ev("connection", "connected", <<m.device>>))]
  IN IF ~m1.connected THEN connectCatch(m2, t)
     ELSE IF autoStartServices THEN [m2 EXCEPT !.task[t].pc = "sleep500"]
     ELSE [m2 EXCEPT !.task[t].pc = "resolved"]

\* Variant of the statements after gatt.connect() that starts the services
\* whatever the configuration.
gattConnectedAlwaysStarting(m, t, up, autoStartServices) ==
  LET m1 == [m EXCEPT !.server = "gatt", !.connected = up]
      m2 == [m1 EXCEPT !.trace[t] = Append(@, Ev("connection", "connected", <<m.device>>)),
                       !.links = Append(@, Ev("connection", "connected", <<m.device>>))]
  IN IF ~m1.connected THEN connectCatch(m1, t)
     ELSE [m2 EXCEPT !.task[t].pc = "sleep500"]

\* gatt.connect() resolved, with the link up or not.  The 'connected' event
\* carries the name of this.device.
gattConnected(m, t, up, autoStartServices) ==
  LET m1 == [m EXCEPT !.server = "gatt", !.connected = up]
      m2 == [m1 EXCEPT !.trace[t] = Append(@, Ev("connection", "connected", <<m.device>>)),
                       !.links = Append(@, Ev("connection", "connected", <<m.device>>))]
  IN IF ~m1.connected THEN connectCatch(m1, t)
     ELSE IF autoStartServices THEN [m2 EXCEPT !.task[t].pc = "sleep500"]
     ELSE [m2 EXCEPT !.task[t].pc = "resolved"]

\* Variant of timerFired whose loop ends before its last entry.
timerFiredBeforeLast(m, t) ==
  startService([m EXCEPT !.trace[t] = Append(@, Pause(m.task[t].pc))], t,
               IF m.task[t].pc = "sleep500" THEN 1
               ELSE IF m.task[t].svc + 1 = Len(Services) THEN m.task[t].svc + 2
               ELSE m.task[t].svc + 1)

\* A sleep of _startAllServices is over: the pause is recorded and the loop
\* goes on with its next entry.
timerFired(m, t) ==
  startService([m EXCEPT !.trace[t] = Append(@, Pause(m.task[t].pc))], t,
               IF m.task[t].pc = "sleep500" THEN 1 ELSE m.task[t].svc + 1)

\* Variant of disconnect() without the test of device.gatt.connected.
disconnectUnconditional(m) == linkLost(m)

\* disconnect()
disconnect(m) == IF m.device = "dev" /\ m.connected THEN linkLost(m) ELSE m

\* ------------------------------------------------------------------ notifications

\* The device may notify a characteristic from the moment startNotifications has
\* been issued for it.
Notifying(m, u) ==
  /\ m.connected
  /\ \/ u \in m.subscribed
     \/ \E t \in m.activeAlgorithms :
          /\ Method(m.task[t].svc)[m.task[t].step].op = "startNotifications"
          /\ Method(m.task[t].svc)[m.task[t].step].uuid = u

\* Variant of valueChanged whose listeners read the first byte as 0 until the
\* magnetometer is in the registry.
valueChangedByRegistry(m, u, bytes) ==
  [m EXCEPT !.typed = [n \in 1..m.charListeners[u] |->
                         Decoded(u, IF "magnetometer" \in m.services
                                    THEN bytes ELSE [bytes EXCEPT ![1] = 0])],
            !.sample = [uuid |-> u, bytes |-> bytes]]

\* characteristicvaluechanged on a characteristic: each listener attached to it
\* decodes the value and emits its event.
valueChanged(m, u, bytes) ==
  [m EXCEPT !.typed = [n \in 1..m.charListeners[u] |-> Decoded(u, bytes)],
            !.sample = [uuid |-> u, bytes |-> bytes]]

\* The values the device sends in the model.
Samples(u) ==
  CASE u = UART_TX -> {<<104, 105>>}
    [] u = TEMPERATURE_DATA -> {<<232>>}
    [] u = ACCELEROMETER_DATA -> {<<16, 0, 240, 255, 0, 4>>}
    [] u = BUTTON_A -> {<<0>>, <<1>>, <<2>>}
    [] u = BUTTON_B -> {<<0>>, <<1>>, <<2>>}
    [] u = MAGNETOMETER_DATA -> {<<16, 0, 240, 255, 0, 4>>}
    [] u = MAGNETOMETER_BEARING -> {<<104, 1>>}
    [] OTHER -> {}

\* ------------------------------------------------------------------ writers

\* The texts the application sends in the model: "hi" and "A".
Texts == {<<104, 105>>, <<65>>}

Write(uuid, bytes) == [uuid |-> uuid, bytes |-> bytes]

\* Variant of sendUART without the test of the characteristic.
sendUARTUnguarded(m, text) ==
  [m EXCEPT !.uart = [NoSend EXCEPT
                        !.pc = "writeValue", !.valid = m.connected, !.text = text,
                        !.linkUp = m.connected,
                        !.rxOpen = m.rxOpened,
                        !.written = <<Write(m.characteristics["uart:rx"],
                                            TextEncode(text \o <<10>>))>>]]

\* Variant of sendUART that does not append the line terminator.
sendUARTNoTerminator(m, text) ==
  LET char == m.characteristics["uart:rx"]
  IN IF char = NoHandle
     THEN [m EXCEPT !.uart = [NoSend EXCEPT !.text = text,
                                             !.linkUp = m.connected,
                                             !.rxOpen = m.rxOpened,
                                             !.result = "UART service not started"]]
     ELSE [m EXCEPT !.uart = [NoSend EXCEPT
                                 !.pc = "writeValue", !.valid = m.connected, !.text = text,
                                 !.linkUp = m.connected,
                                 !.rxOpen = m.rxOpened,
                                 !.written = <<Write(char, TextEncode(text))>>]]

\* sendUART(text)
sendUART(m, text) ==
  LET char == m.characteristics["uart:rx"]
  IN IF char = NoHandle
     THEN [m EXCEPT !.uart = [NoSend EXCEPT !.text = text,
                                             !.linkUp = m.connected,
                                             !.rxOpen = m.rxOpened,
                                             !.result = "UART service not started"]]
     ELSE [m EXCEPT !.uart = [NoSend EXCEPT
                                 !.pc = "writeValue", !.valid = m.connected, !.text = text,
                                 !.linkUp = m.connected,
                                 !.rxOpen = m.rxOpened,
                                 !.written = <<Write(char, TextEncode(text \o <<10>>))>>]]

\* Variant of the catch block of sendTextToLED that writes again when the write
\* was rejected on a link that is up.
ledCatchRetrying(m, error) ==
  IF error = "rejected" /\ m.led.pc = "writeValue" /\ m.connected
  THEN [m EXCEPT !.led.valid = TRUE,
                 !.led.written = Append(@, Write(LED_TEXT, TextEncode(m.led.text)))]
  ELSE [m EXCEPT !.led.pc = "idle", !.led.valid = FALSE, !.led.result = error,
                 !.led.at = IF error = "rejected" THEN m.led.pc ELSE "",
                 !.led.events = _emit(@, "error", "led")]

\* The catch block of sendTextToLED: the 'error' event, then the error is thrown
\* again to the caller.
ledCatch(m, error) ==
  [m EXCEPT !.led.pc = "idle", !.led.valid = FALSE, !.led.result = error,
            !.led.at = IF error = "rejected" THEN m.led.pc ELSE "",
            !.led.events = _emit(@, "error", "led")]

\* A platform call of sendTextToLED is made and awaited.
ledAwait(m, op) ==
  IF ~m.connected THEN ledCatch([m EXCEPT !.led.pc = op], "rejected")
  ELSE [m EXCEPT !.led.pc = op, !.led.valid = TRUE,
                 !.led.written = IF op = "writeValue"
                                 THEN Append(@, Write(LED_TEXT, TextEncode(m.led.text)))
                                 ELSE @]

\* sendTextToLED(text)
sendTextToLED(m, text) ==
  LET m1 == [m EXCEPT !.led = [NoSend EXCEPT !.text = text, !.linkUp = m.connected]]
  IN IF ~(m.server = "gatt" /\ m.connected) THEN ledCatch(m1, "GATT not connected")
     ELSE IF "led" \in m.services THEN ledAwait(m1, "getCharacteristic")
     ELSE ledAwait(m1, "getPrimaryService")

\* The statements after an awaited platform call of sendTextToLED resolved.
ledResolved(m) ==
  CASE m.led.pc = "getPrimaryService" ->
         ledAwait([m EXCEPT !.services = @ \cup {"led"}], "getCharacteristic")
    [] m.led.pc = "getCharacteristic" -> ledAwait(m, "writeValue")
    [] OTHER -> [m EXCEPT !.led.pc = "idle", !.led.valid = FALSE, !.led.result = "ok"]

\* ------------------------------------------------------------------ actions

\* The application calls connect() when it is not connected and no earlier
\* call is in progress.
Connect ==
  /\ calls < MaxConnects
  /\ ~connected
  /\ \A t \in Tasks : task[t].pc = "idle" \/ Settled(Cur, t)
  /\ Commit(connect(Cur, config.deviceNamePrefix))

\* The application calls connect() while it is connected or an earlier call is
\* in progress.
ConnectOverlapping ==
  /\ calls < MaxConnects
  /\ connected \/ \E t \in Tasks : ~(task[t].pc = "idle" \/ Settled(Cur, t))
  /\ Commit(connect(Cur, config.deviceNamePrefix))

\* The user picks the device.
RequestDeviceResolved(t) ==
  task[t].pc = "requestDevice" /\ Commit(deviceChosen(Cur, t))

\* The user cancels the picker.
RequestDeviceRejected(t) ==
  task[t].pc = "requestDevice" /\ Commit(connectCatch(Cur, t))

\* The platform opens the link.
GattConnectResolved(t) ==
  task[t].pc = "gattConnect" /\ Commit(gattConnected(Cur, t, TRUE, config.autoStartServices))

\* gatt.connect() resolves with a server that reports not connected.
GattConnectNotConnected(t) ==
  /\ task[t].pc = "gattConnect"
  /\ ~connected
  /\ Commit(gattConnected(Cur, t, FALSE, config.autoStartServices))

\* gatt.connect() rejects.
GattConnectRejected(t) ==
  task[t].pc = "gattConnect" /\ Commit(connectCatch(Cur, t))

\* A sleep of _startAllServices ends.
TimerFired(t) ==
  task[t].pc \in {"sleep500", "sleep"} /\ Commit(timerFired(Cur, t))

\* The GATT operation a startX method awaits resolves.
OpResolved(t) ==
  task[t].pc = "op" /\ t \in activeAlgorithms /\ Commit(resolved(Cur, t))

\* The GATT operation a startX method awaits rejects: the device refuses it.
OpRefused(t) ==
  /\ task[t].pc = "op"
  /\ t \in activeAlgorithms
  /\ failures < MaxFailures
  /\ Commit(rejected([Cur EXCEPT !.activeAlgorithms = @ \ {t}, !.failures = @ + 1],
                     t, task[t].svc, task[t].step))

\* The GATT operation a startX method awaits rejects: the link was lost while
\* it was in progress.
OpAborted(t) ==
  /\ task[t].pc = "op"
  /\ t \notin activeAlgorithms
  /\ Commit(rejected(Cur, t, task[t].svc, task[t].step))

\* The application calls disconnect().
Disconnect == Commit(disconnect(Cur))

\* The link is lost.
LinkLost == connected /\ Commit(linkLost(Cur))

\* The device notifies a value.
Notify(u) ==
  /\ Notifying(Cur, u)
  /\ \E bytes \in Samples(u) : Commit(valueChanged(Cur, u, bytes))

\* The application calls sendUART(text).
SendUART ==
  /\ uart.pc = "idle"
  /\ led.pc = "idle"
  /\ \E text \in Texts : Commit(sendUART(Cur, text))

\* writeValue of sendUART resolves.
UartWriteResolved ==
  /\ uart.pc = "writeValue"
  /\ uart.valid
  /\ Commit([Cur EXCEPT !.uart.pc = "idle", !.uart.valid = FALSE, !.uart.result = "ok"])

\* writeValue of sendUART rejects.
UartWriteRejected ==
  /\ uart.pc = "writeValue"
  /\ uart.valid => failures < MaxFailures
  /\ Commit([Cur EXCEPT !.uart.pc = "idle", !.uart.valid = FALSE,
                        !.uart.result = "rejected", !.uart.at = "writeValue",
                        !.failures = IF uart.valid THEN @ + 1 ELSE @])

\* The application calls sendTextToLED(text).
SendLED ==
  /\ uart.pc = "idle"
  /\ led.pc = "idle"
  /\ \E text \in Texts : Commit(sendTextToLED(Cur, text))

\* The platform call sendTextToLED awaits resolves.
LedResolved == led.pc # "idle" /\ led.valid /\ Commit(ledResolved(Cur))

\* The platform call sendTextToLED awaits rejects.
LedRejected ==
  /\ led.pc # "idle"
  /\ led.valid => failures < MaxFailures
  /\ Commit(ledCatch([Cur EXCEPT !.failures = IF led.valid THEN @ + 1 ELSE @], "rejected"))

\* The connection manager, the service starter and the decoders.
Next ==
  \/ Connect
  \/ \E t \in Tasks : RequestDeviceResolved(t)
  \/ \E t \in Tasks : RequestDeviceRejected(t)
  \/ \E t \in Tasks : GattConnectResolved(t)
  \/ \E t \in Tasks : GattConnectNotConnected(t)
  \/ \E t \in Tasks : GattConnectRejected(t)
  \/ \E t \in Tasks : TimerFired(t)
  \/ \E t \in Tasks : OpResolved(t)
  \/ \E t \in Tasks : OpRefused(t)
  \/ \E t \in Tasks : OpAborted(t)
  \/ Disconnect
  \/ LinkLost
  \/ \E u \in CharUuids : Notify(u)

Spec == Init /\ [][Next]_vars

\* The connection manager, the service starter and the writers, on a device
\* that sends nothing.
NextSend ==
  \/ Connect
  \/ \E t \in Tasks : RequestDeviceResolved(t)
  \/ \E t \in Tasks : RequestDeviceRejected(t)
  \/ \E t \in Tasks : GattConnectResolved(t)
  \/ \E t \in Tasks : GattConnectNotConnected(t)
  \/ \E t \in Tasks : GattConnectRejected(t)
  \/ \E t \in Tasks : TimerFired(t)
  \/ \E t \in Tasks : OpResolved(t)
  \/ \E t \in Tasks : OpRefused(t)
  \/ \E t \in Tasks : OpAborted(t)
  \/ Disconnect
  \/ LinkLost
  \/ SendUART
  \/ UartWriteResolved
  \/ UartWriteRejected
  \/ SendLED
  \/ LedResolved
  \/ LedRejected

SpecSend == Init /\ [][NextSend]_vars

\* connect() called without regard to the calls in progress, on a device that
\* refuses nothing and notifies the temperature only.
NextOverlap ==
  \/ Connect
  \/ ConnectOverlapping
  \/ \E t \in Tasks : RequestDeviceResolved(t)
  \/ \E t \in Tasks : GattConnectResolved(t)
  \/ \E t \in Tasks : TimerFired(t)
  \/ \E t \in Tasks : OpResolved(t)
  \/ \E t \in Tasks : OpAborted(t)
  \/ Disconnect
  \/ LinkLost
  \/ Notify(TEMPERATURE_DATA)

SpecOverlap == Init /\ [][NextOverlap]_vars

\* One instance with the default configuration: the start sequence, its
\* failures, link losses and notifications, without disconnect() and without
\* failures of requestDevice and gatt.connect().
InitStart ==
  /\ config = MicrobitBLE([k \in {} |-> TRUE])
  /\ sample = NoSample
  /\ Constructed
  /\ ui = NoPage

NextStart ==
  \/ Connect
  \/ \E t \in Tasks : RequestDeviceResolved(t)
  \/ \E t \in Tasks : GattConnectResolved(t)
  \/ \E t \in Tasks : TimerFired(t)
  \/ \E t \in Tasks : OpResolved(t)
  \/ \E t \in Tasks : OpRefused(t)
  \/ \E t \in Tasks : OpAborted(t)
  \/ LinkLost
  \/ \E u \in CharUuids : Notify(u)

SpecStart == InitStart /\ [][NextStart]_vars

\* The device refuses a GATT operation, MaxLiveFailures times at most.
OpRefusedLive(t) == failures < MaxLiveFailures /\ OpRefused(t)

\* The connection manager and the service starter on a platform that settles
\* every call it was given and fires every timer: requestDevice and
\* gatt.connect() resolve or reject, a sleep ends, and a GATT operation resolves,
\* is refused, or rejects because the link was lost.
NextLive ==
  \/ Connect
  \/ \E t \in Tasks : RequestDeviceResolved(t)
  \/ \E t \in Tasks : RequestDeviceRejected(t)
  \/ \E t \in Tasks : GattConnectResolved(t)
  \/ \E t \in Tasks : GattConnectNotConnected(t)
  \/ \E t \in Tasks : GattConnectRejected(t)
  \/ \E t \in Tasks : TimerFired(t)
  \/ \E t \in Tasks : OpResolved(t)
  \/ \E t \in Tasks : OpRefusedLive(t)
  \/ \E t \in Tasks : OpAborted(t)
  \/ Disconnect
  \/ LinkLost

\* The promise or the timer a call of connect() awaits settles.  Connect lets
\* one call be in progress at a time, so one promise or timer is pending at most.
Settles ==
  \E t \in Tasks :
    \/ RequestDeviceResolved(t) \/ RequestDeviceRejected(t)
    \/ GattConnectResolved(t) \/ GattConnectNotConnected(t) \/ GattConnectRejected(t)
    \/ TimerFired(t)
    \/ OpResolved(t) \/ OpRefusedLive(t) \/ OpAborted(t)

PlatformSettles == WF_vars(Settles)

SpecLive == Init /\ [][NextLive]_vars /\ PlatformSettles

\* The page of the app: initializeApp has made the instance, with
\* autoStartServices true and serviceDelay 300, and its MicrobitUIAdapter; the
\* user clicks the buttons that are enabled, and the device refuses no
\* operation.
InitUI ==
  /\ config = MicrobitBLE([autoStartServices |-> TRUE, serviceDelay |-> 300])
  /\ sample = NoSample
  /\ Constructed
  /\ ui = [NoPage EXCEPT !.adapter = TRUE]

\* The user clicks connectBtn: connectToMicrobit of the page.
ClickConnect ==
  /\ ~ui.connectBtn
  /\ calls < MaxConnects
  /\ Commit(connect(Cur, config.deviceNamePrefix))

\* The user clicks disconnectBtn: disconnect of the page.
ClickDisconnect ==
  /\ ~ui.disconnectBtn
  /\ Commit(disconnect(Cur))

NextUI ==
  \/ ClickConnect
  \/ ClickDisconnect
  \/ \E t \in Tasks : RequestDeviceResolved(t)
  \/ \E t \in Tasks : RequestDeviceRejected(t)
  \/ \E t \in Tasks : GattConnectResolved(t)
  \/ \E t \in Tasks : GattConnectNotConnected(t)
  \/ \E t \in Tasks : GattConnectRejected(t)
  \/ \E t \in Tasks : TimerFired(t)
  \/ \E t \in Tasks : OpResolved(t)
  \/ \E t \in Tasks : OpAborted(t)
  \/ LinkLost

SpecUI == InitUI /\ [][NextUI]_vars

\* The constructor and the connection manager, for every argument of the
\* constructor in ConfigArgs.
InitConfig ==
  /\ config \in {MicrobitBLE(arg) : arg \in ConfigArgs}
  /\ sample = NoSample
  /\ Constructed
  /\ ui = NoPage

NextConfig ==
  \/ Connect
  \/ \E t \in Tasks : RequestDeviceResolved(t)
  \/ \E t \in Tasks : RequestDeviceRejected(t)
  \/ \E t \in Tasks : GattConnectResolved(t)
  \/ \E t \in Tasks : GattConnectRejected(t)
  \/ Disconnect
  \/ LinkLost

SpecConfig == InitConfig /\ [][NextConfig]_vars

\* ------------------------------------------------------------------ the decoders alone

\* The low and the high bytes of the 16-bit slices of the six-byte values:
\* 0x00 0x10 0xF0 0xFF, and 0x00 0x04 0x7F 0x80 0xFF on either side of the sign.
LowBytes == {0, 16, 240, 255}
HighBytes == {0, 4, 127, 128, 255}

\* The high bytes of the bearing values: 0x00 0x01 0x7F 0x80 0xFF.
BearingHighBytes == {0, 1, 127, 128, 255}

\* One 16-bit slice, low byte first.
Slices == {<<lo, hi>> : lo \in LowBytes, hi \in HighBytes}

\* The values on the characteristics: every one-byte value where the listener
\* reads one byte, the two-byte values with every low byte and a high byte of
\* BearingHighBytes for the bearing, and the six-byte values made of three slices
\* for the accelerometer and the magnetometer.
DecodeInputs ==
  {[uuid |-> u, bytes |-> <<b>>] : u \in {BUTTON_A, BUTTON_B, TEMPERATURE_DATA}, b \in 0..255}
  \cup {[uuid |-> MAGNETOMETER_BEARING, bytes |-> <<lo, hi>>] : lo \in 0..255, hi \in BearingHighBytes}
  \cup {[uuid |-> u, bytes |-> x \o y \o z] :
          u \in {ACCELEROMETER_DATA, MAGNETOMETER_DATA},
          x \in Slices, y \in Slices, z \in Slices}

InitDecode ==
  /\ config = MicrobitBLE([k \in {} |-> TRUE])
  /\ sample \in DecodeInputs
  /\ Constructed
  /\ ui = NoPage

\* The listener of the characteristic decodes the value and emits its event.
Decode ==
  /\ typed = <<>>
  /\ typed' = <<Decoded(sample.uuid, sample.bytes)>>
  /\ UNCHANGED <<config, device, server, services, characteristics, connected,
                 gattListeners, activeAlgorithms, subscribed, rxOpened, charListeners, task,
                 calls, led, uart, trace, res, links, sinceDisc, sample, failures,
                 eventHandlers, registered, emission, ui>>

NextDecode == Decode

SpecDecode == InitDecode /\ [][NextDecode]_vars

\* ------------------------------------------------------------------ the writers' encoding

\* The code points of the texts: "\n", "A", "h", "i", U+00E9, U+20AC.
EncodeAlphabet == {10, 65, 104, 105, 233, 8364}

EncodeTexts == UNION {[1..n -> EncodeAlphabet] : n \in 0..MaxTextLen}

\* The application calls sendUART(text) with any of the texts, when no call of
\* connect() is in progress.
SendUARTText ==
  /\ uart.pc = "idle"
  /\ led.pc = "idle"
  /\ \A t \in Tasks : task[t].pc = "idle" \/ Settled(Cur, t)
  /\ \E text \in EncodeTexts : Commit(sendUART(Cur, text))

\* The application calls sendTextToLED(text) with any of the texts, when no call
\* of connect() is in progress.
SendLEDText ==
  /\ uart.pc = "idle"
  /\ led.pc = "idle"
  /\ \A t \in Tasks : task[t].pc = "idle" \/ Settled(Cur, t)
  /\ \E text \in EncodeTexts : Commit(sendTextToLED(Cur, text))

\* connect() on a device that refuses nothing and keeps the link, and the
\* writers.
NextEncode ==
  \/ Connect
  \/ \E t \in Tasks : RequestDeviceResolved(t)
  \/ \E t \in Tasks : GattConnectResolved(t)
  \/ \E t \in Tasks : TimerFired(t)
  \/ \E t \in Tasks : OpResolved(t)
  \/ SendUARTText
  \/ UartWriteResolved
  \/ SendLEDText
  \/ LedResolved

SpecEncode == Init /\ [][NextEncode]_vars

\* ------------------------------------------------------------------ the callbacks

\* The callbacks the application registers: two that return, one that throws,
\* one that registers callback "a" for the event it is invoked for.
Callbacks == {"a", "b", "thrower", "registrar"}

\* The events of the emitter model; "custom" is not in the default table.
EmitEvents == {"connection", "error", "custom"}

\* The callbacks a log of on() calls holds for an event, in the order of the calls.
RegisteredFor(log, event) ==
  LET f == SelectSeq(log, LAMBDA r : r.event = event)
  IN [n \in 1..Len(f) |-> f[n].handler]

\* Variant of on() that puts the callback at the front of the list.
onPrepending(m, event, handler) ==
  LET table == IF event \in DOMAIN m.eventHandlers THEN m.eventHandlers
               ELSE [e \in DOMAIN m.eventHandlers \cup {event} |->
                       IF e = event THEN <<>> ELSE m.eventHandlers[e]]
  IN [m EXCEPT !.eventHandlers = [table EXCEPT ![event] = <<handler>> \o @],
               !.registered = Append(@, [event |-> event, handler |-> handler])]

\* on(event, handler)
on(m, event, handler) ==
  LET table == IF event \in DOMAIN m.eventHandlers THEN m.eventHandlers
               ELSE [e \in DOMAIN m.eventHandlers \cup {event} |->
                       IF e = event THEN <<>> ELSE m.eventHandlers[e]]
  IN [m EXCEPT !.eventHandlers = [table EXCEPT ![event] = Append(@, handler)],
               !.registered = Append(@, [event |-> event, handler |-> handler])]

\* handler(data): what the callback does, and whether it throws.
callback(m, event, handler) ==
  CASE handler = "thrower" -> [m |-> m, threw |-> TRUE]
    [] handler = "registrar" -> [m |-> on(m, event, "a"), threw |-> FALSE]
    [] OTHER -> [m |-> m, threw |-> FALSE]

\* Variant of the body of the forEach of _emit without try and catch.
tryHandlerUncaught(m, event, handler) ==
  LET r == callback([m EXCEPT !.emission.invoked = Append(@, handler)], event, handler)
  IN IF r.threw THEN [r.m EXCEPT !.emission.thrown = TRUE] ELSE r.m

\* The body of the forEach of _emit: the callback is invoked inside try, and
\* catch logs what it throws.
tryHandler(m, event, handler) ==
  LET r == callback([m EXCEPT !.emission.invoked = Append(@, handler)], event, handler)
  IN IF r.threw THEN [r.m EXCEPT !.emission.caught = @ + 1] ELSE r.m

\* handlers.forEach(...): elements k..n of the list, n being its length when the
\* loop began; an exception that leaves the body ends the loop.
RECURSIVE forEach(_, _, _, _)
forEach(m, event, k, n) ==
  IF k > n \/ m.emission.thrown THEN m
  ELSE forEach(tryHandler(m, event, m.eventHandlers[event][k]), event, k + 1, n)

\* _emit(event, data) with callbacks registered.
dispatch(m, event) ==
  LET handlers == IF event \in DOMAIN m.eventHandlers THEN m.eventHandlers[event] ELSE <<>>
      m0 == [m EXCEPT !.emission = [NoEmission EXCEPT
                                      !.event = event,
                                      !.expected = RegisteredFor(m.registered, event),
                                      !.before = m.eventHandlers]]
  IN forEach(m0, event, 1, Len(handlers))

\* The application, or a callback, calls on(event, handler).
On(event, handler) ==
  /\ Len(registered) < MaxRegistered
  /\ Commit(on(Cur, event, handler))

\* The library emits an event.
Emit(event) ==
  /\ Len(registered) + Len(SelectSeq(RegisteredFor(registered, event),
                                    LAMBDA h : h = "registrar")) <= MaxRegistered
  /\ Commit(dispatch(Cur, event))

NextEmit ==
  \/ \E event \in EmitEvents, handler \in Callbacks : On(event, handler)
  \/ \E event \in EmitEvents : Emit(event)

SpecEmit == Init /\ [][NextEmit]_vars

\* ------------------------------------------------------------------ reading the histories

\* The services call t of connect() has attempted, in order.
Attempts(t) ==
  LET a == SelectSeq(trace[t], LAMBDA e : e.name = "attempt")
  IN [n \in 1..Len(a) |-> a[n].arg]

\* The attempts and pauses of call t, in order.
Schedule(t) == SelectSeq(trace[t], LAMBDA e : e.name \in {"attempt", "pause"})

\* How often an event with this name and payload is in a history.
Count(log, name, arg) ==
  Cardinality({n \in 1..Len(log) : log[n].name = name /\ log[n].arg = arg})

\* Call t has settled after it ran the start sequence.
RanStartSequence(t) ==
  /\ task[t].pc \in {"resolved", "rejected"}
  /\ Attempts(t) # <<>>

NoHandles == services = {} /\ \A k \in CharKeys : characteristics[k] = NoHandle

\* ------------------------------------------------------------------ claims

C2_LinkLossClearsAndEmits ==
  [][(connected /\ ~connected') =>
       /\ services' = {}
       /\ \A k \in CharKeys : characteristics'[k] = NoHandle
       /\ Len(links') > Len(links)
       /\ \A n \in (Len(links) + 1)..Len(links') : links'[n].name = "disconnection"]_vars

\* C2 witness: after a disconnection a new connect() has reached the connected
\* state and started a service.
C2_Witness ==
  /\ Len(links) >= 3
  /\ links[Len(links) - 1].name = "disconnection"
  /\ links[Len(links)].name = "connection"
  /\ connected
  /\ "uart" \in services

\* C3: every run of the start sequence attempts uart, temperature, accelerometer,
\* buttons, magnetometer in this order, each once, and begins no attempt before
\* every earlier one has finished.
C3_FixedOrder ==
  \A t \in Tasks :
    LET a == Attempts(t)
        order == <<"uart", "temperature", "accelerometer", "buttons", "magnetometer">>
    IN /\ Len(a) <= Len(order)
       /\ \A n \in 1..Len(a) : a[n] = order[n]
       /\ \A n \in 1..(Len(a) - 1) : res[t][n] # "none"
       /\ RanStartSequence(t) => a = order

\* C3 witness: a run that has attempted all five, with a success and a failure.
C3_Witness ==
  /\ RanStartSequence(1)
  /\ connected
  /\ res[1][2] = "failed"
  /\ res[1][4] = "ok"

\* C4: a service whose open fails does not keep the others from being
\* attempted, and each service whose own open succeeds has its 'service:started'
\* event and, while the link lasts, its registry entry.
C4_FailureDoesNotAbort ==
  \A t \in Tasks :
    /\ \A i \in 1..Len(Services) :
         (res[t][i] = "failed" /\ task[t].pc \in {"resolved", "rejected"}) =>
           \A j \in 1..Len(Services) : Count(trace[t], "attempt", Services[j]) = 1
    /\ \A i \in 1..Len(Services) :
         res[t][i] = "ok" =>
           /\ Count(trace[t], "service:started", Services[i]) = 1
           /\ connected => Services[i] \in services

\* C4 witness: the magnetometer failed and the four others are started.
C4_Witness ==
  /\ task[1].pc = "resolved"
  /\ res[1][5] = "failed"
  /\ \A i \in 1..4 : res[1][i] = "ok"
  /\ {"uart", "temperature", "accelerometer", "buttons"} \subseteq services

C6_Serialized == Cardinality(activeAlgorithms) <= 1

\* C7: between two consecutive attempts of a start sequence a serviceDelay
\* pause has taken place.
C7_PauseBetweenAttempts ==
  \A t \in Tasks :
    \A n \in 1..(Len(Schedule(t)) - 1) :
      Schedule(t)[n].name = "attempt" => Schedule(t)[n + 1] = Pause("sleep")

\* C8: a typed event is emitted for a characteristic only after startNotifications
\* on that characteristic has succeeded.
C8_NoEventBeforeSubscription ==
  \A n \in 1..Len(typed) :
    typed[n].name \in TypedEvents => sample.uuid \in subscribed

\* C8 witness: a listener has emitted the event of a notification.
C8_Witness ==
  /\ sample.uuid = BUTTON_B
  /\ Len(typed) = 1
  /\ typed[1].name = "button:b:changed"

\* C9: the button events carry pressed = false for the byte 0 and pressed = true
\* for every other byte.
C9_ButtonDecode ==
  \A n \in 1..Len(typed) :
    typed[n].name \in {"button:a:changed", "button:b:changed"} =>
      (typed[n].arg = "pressed") = (sample.bytes[1] # 0)

\* C10 as stated: sendUART writes to 6e400002-..., and the UART notifications
\* are subscribed on 6e400003-....
C10_Original ==
  /\ \A n \in 1..Len(uart.written) :
       uart.written[n].uuid = "6e400002-b5a3-f393-e0a9-e50e24dcca9e"
  /\ \A t \in Tasks :
       (res[t][1] = "ok" /\ connected) => "6e400003-b5a3-f393-e0a9-e50e24dcca9e" \in subscribed

\* C10 as amended: sendUART writes to 6e400003-... (UART_RX in the code), and
\* the UART notifications are subscribed on 6e400002-... (UART_TX in the code).
C10_UartCharacteristics ==
  /\ \A n \in 1..Len(uart.written) :
       uart.written[n].uuid = "6e400003-b5a3-f393-e0a9-e50e24dcca9e"
  /\ \A t \in Tasks :
       (res[t][1] = "ok" /\ connected) =>
         /\ "6e400002-b5a3-f393-e0a9-e50e24dcca9e" \in subscribed
         /\ "6e400003-b5a3-f393-e0a9-e50e24dcca9e" \notin subscribed

\* C10 witness: UART is started and sendUART has written.
C10_Witness ==
  /\ res[1][1] = "ok"
  /\ connected
  /\ Len(uart.written) = 1

\* A call of sendUART, of sendTextToLED, has settled in the last step.
UartSettled == uart.pc = "idle" /\ uart.result # ""
LedSettled == led.pc = "idle" /\ led.result # ""

\* C11: a call of sendUART or sendTextToLED made without an active link fails
\* with the not-connected error and writes nothing.
C11_NotConnectedError ==
  /\ (LedSettled /\ ~led.linkUp) =>
       led.result = "GATT not connected" /\ led.written = <<>>
  /\ (UartSettled /\ ~uart.linkUp) =>
       uart.result = "GATT not connected" /\ uart.written = <<>>

\* C12: sendUART called when UART_RX has not been opened on the current link
\* fails with 'UART service not started' and writes nothing; sendTextToLED whose
\* getPrimaryService or getCharacteristic rejects emits one 'error' event of
\* type 'led', rejects and writes nothing.
C12_ServiceUnavailable ==
  /\ (uart # NoSend /\ ~uart.rxOpen) =>
       /\ UartSettled
       /\ uart.result = "UART service not started"
       /\ uart.written = <<>>
  /\ (LedSettled /\ led.at \in {"getPrimaryService", "getCharacteristic"}) =>
       /\ led.result = "rejected"
       /\ led.events = <<Ev("error", "led", <<>>)>>
       /\ led.written = <<>>

\* C12 witness: sendUART was called on a link that is up, with the UART service
\* found and UART_RX not, and failed.
C12_Witness ==
  /\ UartSettled
  /\ uart.linkUp
  /\ ~uart.rxOpen
  /\ "uart" \in services
  /\ uart.result = "UART service not started"

\* C13: a call of sendUART or sendTextToLED writes at most once, and a rejected
\* write settles the call as rejected with that one write made.
C13_SingleWrite ==
  /\ Len(uart.written) <= 1
  /\ Len(led.written) <= 1
  /\ (UartSettled /\ uart.at = "writeValue") =>
       uart.result = "rejected" /\ Len(uart.written) = 1
  /\ (LedSettled /\ led.at = "writeValue") =>
       /\ led.result = "rejected"
       /\ Len(led.written) = 1
       /\ led.events = <<Ev("error", "led", <<>>)>>

\* C13 witness: the device refused the write of sendTextToLED on a link that
\* stays up.
C13_Witness ==
  /\ LedSettled
  /\ led.at = "writeValue"
  /\ led.linkUp
  /\ connected

\* C14: sendUART writes the UTF-8 bytes of its text followed by one "\n", and
\* sendTextToLED writes the UTF-8 bytes of its text and nothing else; "hi"
\* gives h, i, "\n" and "A" gives one byte.
C14_Encoding ==
  /\ \A n \in 1..Len(uart.written) :
       /\ uart.written[n].bytes = TextEncode(uart.text) \o <<10>>
       /\ uart.text = <<104, 105>> => uart.written[n].bytes = <<104, 105, 10>>
       /\ uart.text = <<8364>> => uart.written[n].bytes = <<226, 130, 172, 10>>
  /\ \A n \in 1..Len(led.written) :
       /\ led.written[n].bytes = TextEncode(led.text)
       /\ led.text = <<65>> => led.written[n].bytes = <<65>>
       /\ led.text = <<233, 10>> => led.written[n].bytes = <<195, 169, 10>>

\* C14 witness: sendUART("hi") has written h, i, "\n".
C14_Witness ==
  /\ uart.text = <<104, 105>>
  /\ uart.written = <<Write(UART_RX, <<104, 105, 10>>)>>

\* C15: a call of connect() that leaves requestDevice or gatt.connect() without
\* a link that is up has rejected, with one 'error' event of type 'connection',
\* no 'connected' event and no service attempted.
C15_ConnectFailure ==
  [][\A t \in Tasks :
       (/\ task[t].pc \in {"requestDevice", "gattConnect"}
        /\ task'[t].pc \notin {"requestDevice", "gattConnect"}
        /\ ~connected') =>
         /\ task'[t].pc = "rejected"
         /\ Count(trace'[t], "error", "connection") = 1
         /\ Count(trace'[t], "connection", "connected") = 0
         /\ \A n \in 1..Len(trace'[t]) : trace'[t][n].name # "attempt"
         /\ res'[t] = NoRes]_vars

\* C15 witness: the only call of connect() has rejected after gatt.connect()
\* resolved with a server that is not connected.
C15_Witness ==
  /\ calls = 1
  /\ task[1].pc = "rejected"
  /\ server = "gatt"
  /\ ~connected

\* C16: the 'connected' event, with the name of the device, precedes every
\* service attempt of its connect(); services are attempted only with
\* autoStartServices, and without it connect() opens no service.
C16_ConnectedBeforeStart ==
  \A t \in Tasks :
    LET c == {n \in 1..Len(trace[t]) : trace[t][n] = Ev("connection", "connected", <<"dev">>)}
        a == {n \in 1..Len(trace[t]) : trace[t][n].name = "attempt"}
    IN /\ a # {} => config.autoStartServices /\ \E n \in c : \A k \in a : n < k
       /\ task[t].pc = "resolved" => Cardinality(c) = 1
       /\ ~config.autoStartServices =>
            a = {} /\ services = {} /\ activeAlgorithms = {} /\ res[t] = NoRes

\* C16 witness: connect() has resolved after the start sequence.
C16_Witness ==
  /\ task[1].pc = "resolved"
  /\ config.autoStartServices
  /\ res[1][1] = "ok"
  /\ trace[1][2] = Ev("connection", "connected", <<"dev">>)

\* C17: disconnect() takes the link down when it is up, and otherwise changes
\* nothing: no event, and device, server, registry, characteristic map, handler
\* table and the state of the platform are as before.
C17_DisconnectNoOp ==
  IF device = "dev" /\ connected
  THEN ~disconnect(Cur).connected
  ELSE disconnect(Cur) = Cur

\* C17 witness: a device has been chosen, its link is down, and disconnect()
\* changes nothing.
C17_Witness ==
  /\ device = "dev"
  /\ ~connected
  /\ gattListeners > 0
  /\ disconnect(Cur) = Cur

\* C18: an emission invokes the callbacks registered for its event, in the
\* order of their registration, each once.
C18_RegistrationOrder ==
  emission.event # "" => emission.invoked = emission.expected

\* C18 witness: two different callbacks were registered for an event and both
\* were invoked.
C18_Witness ==
  /\ emission.event = "custom"
  /\ emission.expected = <<"b", "a">>
  /\ emission.invoked = <<"b", "a">>

\* C19: when a callback throws, the callbacks after it are invoked all the
\* same, nothing is thrown to the caller of _emit, each exception is caught,
\* and the handler table changes only by the on() calls of callbacks.
C19_FailureIsCaught ==
  (emission.event # "" /\ \E n \in 1..Len(emission.expected) : emission.expected[n] = "thrower") =>
    /\ ~emission.thrown
    /\ Len(emission.invoked) = Len(emission.expected)
    /\ \A n \in 1..Len(emission.expected) : emission.invoked[n] = emission.expected[n]
    /\ emission.caught = Cardinality({n \in 1..Len(emission.expected) :
                                         emission.expected[n] = "thrower"})
    /\ (\A n \in 1..Len(emission.expected) : emission.expected[n] # "registrar") =>
         eventHandlers = emission.before
    /\ \A e \in DOMAIN eventHandlers : eventHandlers[e] = RegisteredFor(registered, e)

\* C19 witness: the first callback of an emission threw and the second was
\* invoked.
C19_Witness ==
  /\ emission.event = "error"
  /\ emission.expected = <<"thrower", "a">>
  /\ emission.invoked = <<"thrower", "a">>
  /\ emission.caught = 1

\* C20: a notification on a subscribed characteristic produces one typed event,
\* with the decoded value, in the step that delivers it.
C20_OneEventPerNotification ==
  sample.uuid \in subscribed =>
    typed = <<Decoded(sample.uuid, sample.bytes)>>

\* C21: the temperature event carries the byte read as a signed two's-complement
\* value: a value of -128..127 that equals the byte modulo 256, -24 for 0xE8.
C21_TemperatureDecode ==
  \A n \in 1..Len(typed) :
    typed[n].name = "temperature:changed" =>
      /\ typed[n].val[1] \in -128..127
      /\ (typed[n].val[1] - sample.bytes[1]) % 256 = 0
      /\ sample.bytes = <<232>> => typed[n].val = <<-24>>

\* C21 witness: the byte 0xE8 has been decoded to -24.
C21_Witness ==
  /\ sample.uuid = TEMPERATURE_DATA
  /\ sample.bytes = <<232>>
  /\ typed = <<Ev("temperature:changed", "", <<-24>>)>>

\* C22: the accelerometer and magnetometer events carry x, y and z, each the
\* signed 16-bit little-endian value of its own two bytes (0-1, 2-3, 4-5): a value
\* of -32768..32767 that equals low + 256 * high modulo 65536; 16, -16 and 1024
\* for 10 00 F0 FF 00 04.
C22_VectorDecode ==
  \A n \in 1..Len(typed) :
    typed[n].name \in {"accelerometer:changed", "magnetometer:changed"} =>
      /\ Len(typed[n].val) = 3
      /\ \A k \in 1..3 :
           /\ typed[n].val[k] \in -32768..32767
           /\ (typed[n].val[k] - (sample.bytes[2 * k - 1] + 256 * sample.bytes[2 * k])) % 65536 = 0
      /\ sample.bytes = <<16, 0, 240, 255, 0, 4>> => typed[n].val = <<16, -16, 1024>>

\* C22 witness: 10 00 F0 FF 00 04 has been decoded on the magnetometer data
\* characteristic.
C22_Witness ==
  /\ sample.uuid = MAGNETOMETER_DATA
  /\ sample.bytes = <<16, 0, 240, 255, 0, 4>>
  /\ typed = <<Ev("magnetometer:changed", "", <<16, -16, 1024>>)>>

\* C23: the bearing event carries byte 0 + 256 * byte 1, a value of 0..65535.
C23_BearingDecode ==
  \A n \in 1..Len(typed) :
    typed[n].name = "magnetometer:bearing:changed" =>
      /\ typed[n].val = <<sample.bytes[1] + 256 * sample.bytes[2]>>
      /\ typed[n].val[1] \in 0..65535

\* C23 witness: FF FF, the largest value, has been decoded to 65535.
C23_Witness ==
  /\ sample.uuid = MAGNETOMETER_BEARING
  /\ sample.bytes = <<255, 255>>
  /\ typed = <<Ev("magnetometer:bearing:changed", "", <<65535>>)>>

C25_DiscoveryRequest ==
  \A t \in Tasks :
    task[t].pc # "idle" =>
      /\ {"6e400001-b5a3-f393-e0a9-e50e24dcca9e", "e95d6100-251d-470a-a062-fa1922dfa9a8",
           "e95d0753-251d-470a-a062-fa1922dfa9a8", "e95d9882-251d-470a-a062-fa1922dfa9a8",
           "e95df2d8-251d-470a-a062-fa1922dfa9a8", "e95dd91d-251d-470a-a062-fa1922dfa9a8"}
            \subseteq task[t].request.optionalServices
      /\ Len(task[t].request.filters) = 1
      /\ \E arg \in ConfigArgs :
           /\ config = MicrobitBLE(arg)
           /\ task[t].request.filters[1] =
                [namePrefix |-> IF "deviceNamePrefix" \in DOMAIN arg
                                THEN arg["deviceNamePrefix"] ELSE "BBC micro:bit"]

\* C25 witness: an instance constructed with the prefix "micro" has called
\* requestDevice.
C25_Witness ==
  /\ task[1].pc = "requestDevice"
  /\ config.deviceNamePrefix = "micro"
  /\ task[1].request.filters = <<[namePrefix |-> "micro"]>>
  /\ LED_SERVICE \in task[1].request.optionalServices

\* C26: after a startX method has failed, isServiceStarted is false for its
\* service: the registry holds no entry for a service whose start failed.
C26_FailedIsNotStarted ==
  \A t \in Tasks : \A i \in 1..Len(Services) :
    res[t][i] = "failed" => ~isServiceStarted(Cur, Services[i])

\* C27: a service whose start fails during the start sequence has exactly one
\* 'service:failed' event with its name in the history of the call.
C27_OneFailedEvent ==
  \A t \in Tasks : \A i \in 1..Len(Services) :
    res[t][i] = "failed" => Count(trace[t], "service:failed", Services[i]) = 1

\* C28: the 'connection' events with status 'connected' and the 'disconnection'
\* events alternate strictly: no two in a row are of the same kind, so a link
\* loss emits one 'disconnection' event.
C28_StrictAlternation ==
  \A n \in 1..(Len(links) - 1) : links[n].name # links[n + 1].name

\* C29: while the last of the 'connected' and 'disconnection' events is a
\* 'disconnection', no step adds a 'service:started' event to the history of
\* any call of connect().
C29_NoStartAfterDisconnection ==
  [][(/\ links # <<>>
      /\ links[Len(links)].name = "disconnection"
      /\ links' = links)
     => \A t \in Tasks : \A i \in 1..Len(Services) :
          Count(trace'[t], "service:started", Services[i])
            <= Count(trace[t], "service:started", Services[i])]_vars

\* C30: startMagnetometer ends with one 'service:started' event and no
\* 'service:failed' event when the data or the bearing characteristic was
\* subscribed, and with one 'service:failed' event and no 'service:started'
\* event when neither was (the service was not opened, or both subscriptions
\* failed); before it ends there is neither event, and a call of connect() that
\* reached startMagnetometer has no 'error' event.  The subscriptions are read
\* from the link while it is up.
C30_MagnetometerStarted ==
  \A t \in Tasks :
    LET started == Count(trace[t], "service:started", "magnetometer")
        failed == Count(trace[t], "service:failed", "magnetometer")
        any == subscribed \cap {MAGNETOMETER_DATA, MAGNETOMETER_BEARING} # {}
        i == Len(Services)
    IN /\ res[t][i] = "none" => started = 0 /\ failed = 0
       /\ res[t][i] = "ok" => started = 1 /\ failed = 0 /\ (connected => any)
       /\ res[t][i] = "failed" => started = 0 /\ failed = 1 /\ (connected => ~any)
       /\ res[t][i] # "none" => \A n \in 1..Len(trace[t]) : trace[t][n].name # "error"

\* C30 witness: the data characteristic was refused, the bearing was subscribed,
\* and the magnetometer is started without a 'service:failed' event.
C30_Witness ==
  /\ connected
  /\ res[1][5] = "ok"
  /\ MAGNETOMETER_DATA \notin subscribed
  /\ MAGNETOMETER_BEARING \in subscribed
  /\ Count(trace[1], "service:started", "magnetometer") = 1
  /\ Count(trace[1], "service:failed", "magnetometer") = 0

\* C31: on a platform that settles every call and fires every timer, a call of
\* connect() that is in progress leads to a state in which no call is in
\* progress: the call has resolved or rejected, for a call leaves its course in
\* no other way and no call begins while one is in progress; and a call that has
\* resolved with autoStartServices has attempted uart, temperature,
\* accelerometer, buttons and magnetometer.
C31_ConnectSettles ==
  /\ (\E t \in Tasks : task[t].pc \notin {"idle", "resolved", "rejected"})
       ~> (\A t \in Tasks : task[t].pc \in {"idle", "resolved", "rejected"})
  /\ [](\A t \in Tasks :
          (task[t].pc = "resolved" /\ config.autoStartServices) =>
            Attempts(t) = <<"uart", "temperature", "accelerometer", "buttons", "magnetometer">>)

\* C31 witness: the second call of connect() has resolved after its start
\* sequence, in which the link was lost before the magnetometer was attempted.
C31_Witness ==
  /\ task[2].pc = "resolved"
  /\ config.autoStartServices
  /\ ~connected
  /\ res[2][1] = "ok"
  /\ res[2][5] = "failed"
  /\ Len(Attempts(2)) = 5

\* C32: the send button of the page is enabled only while the link is up and
\* the uart service is started on it.
C32_SendButton ==
  ~ui.sendBtn => (connected /\ isServiceStarted(Cur, "uart"))

\* C33: a step in which a call of connect() rejects leaves connectBtn enabled
\* and disconnectBtn disabled; and connectBtn is disabled while a call of
\* connect() is in progress or the link is up.
C33_ConnectButton ==
  [][/\ (\E t \in Tasks : task'[t].pc = "rejected" /\ task[t].pc # "rejected")
         => (~ui'.connectBtn /\ ui'.disconnectBtn)
     /\ ((\E t \in Tasks : task'[t].pc \notin {"idle", "resolved", "rejected"}) \/ connected')
         => ui'.connectBtn]_vars
====
